---- MODULE Spec2Model ----
(***************************************************************************)
(* The multi-agent orchestration graphs of langgraph-101-ts: the top-level *)
(* verification / memory graphs (04, 05 and the unnumbered variant), the   *)
(* supervisor with its delegate wrappers (03 and the unnumbered variant),  *)
(* the music and invoice sub-agent loops and the invoice tools.            *)
(*                                                                         *)
(* Strings that the code inspects (identifiers, phone numbers, ids in      *)
(* string form) are sequences of one-character strings.  The language      *)
(* model is a nondeterministic choice over the responses it can give.      *)
(***************************************************************************)
EXTENDS Integers, Sequences, FiniteSets, TLC

\* ------------------------------------------------------------------ bounds
\* resumes of a suspended run that the caller supplies per thread
MaxResumes == 1
\* invocations by the caller (first invoke, later turns, new threads)
MaxInvokes == 2
\* tool rounds of one nested supervisor run
MaxSupRounds == 1
\* tool rounds of one sub-agent loop
MaxSubRounds == 2
\* characters of an identifier handed to getCustomerIdFromIdentifier on its own
MaxIdentifierLen == 4
\* characters of a genre argument of get_songs_by_genre
MaxGenreLen == 2
\* steps of a trajectory handed to the trajectory evaluators
MaxTrajectoryLen == 3
\* examples handed to getOrCreateDataset
MaxExamples == 3
\* calls of getOrCreateDataset with one dataset name
MaxDatasetCalls == 3

\* ------------------------------------------------------- absent values
\* customerId: z.number().optional() -- the absent (undefined) customer id
Nil == -1
\* let customerId: number | null = null -- the lookup found nothing
Null == -2
\* remainingSteps: z.number().default(25)
DefaultRemainingSteps == 25

\* ------------------------------------------------------------- strings
Digits == {"0", "1", "2", "3", "4", "5", "6", "7", "8", "9"}

DigitVal(c) ==
  CASE c = "0" -> 0 [] c = "1" -> 1 [] c = "2" -> 2 [] c = "3" -> 3
    [] c = "4" -> 4 [] c = "5" -> 5 [] c = "6" -> 6 [] c = "7" -> 7
    [] c = "8" -> 8 [] c = "9" -> 9

DigitChar(d) ==
  CASE d = 0 -> "0" [] d = 1 -> "1" [] d = 2 -> "2" [] d = 3 -> "3"
    [] d = 4 -> "4" [] d = 5 -> "5" [] d = 6 -> "6" [] d = 7 -> "7"
    [] d = 8 -> "8" [] d = 9 -> "9"

\* /^\d+$/.test(identifier)
AllDigits(s) == Len(s) > 0 /\ \A i \in 1..Len(s) : s[i] \in Digits

\* parseInt(identifier) on an all-digits string
RECURSIVE parseInt(_)
parseInt(s) ==
  IF s = <<>> THEN 0
  ELSE parseInt(SubSeq(s, 1, Len(s) - 1)) * 10 + DigitVal(s[Len(s)])

\* Number.prototype.toString() on a non-negative integer
RECURSIVE toString(_)
toString(n) ==
  IF n < 10 THEN <<DigitChar(n)>>
  ELSE toString(n \div 10) \o <<DigitChar(n % 10)>>

\* identifier.replace(/[\s\(\)]/g, "")
IsStripped(c) == c \in {" ", "(", ")"}
normalize(s) == SelectSeq(s, LAMBDA c : ~IsStripped(c))

\* identifier.startsWith("+")
startsWithPlus(s) == Len(s) > 0 /\ s[1] = "+"

\* identifier.includes("@")
includesAt(s) == \E i \in 1..Len(s) : s[i] = "@"

\* ------------------------------------------------- the customer table
\* The rows of the Customer table that the lookups read (the store is an
\* external collaborator; these rows are the store's content in the model).
CustomerTable ==
  << [CustomerId |-> 1, Phone |-> <<"+", "1", " ", "5">>, Email |-> <<"a", "@", "b">>],
     [CustomerId |-> 2, Phone |-> <<"+", "2", "(", "5", ")">>, Email |-> <<"+", "c", "@", "b">>] >>

\* The identifiers structured extraction can return for a message.
Identifiers ==
  { <<>>,                              \* nothing extracted
    <<"0">>, <<"1">>, <<"2">>, <<"7">>,  \* all digits ("7" names no customer)
    <<"+", "1", " ", "5">>,            \* a stored phone, exactly
    <<"+", "2", "5">>,                 \* a stored phone, after normalising
    <<"+", "9">>,                      \* no stored phone
    <<"a", "@", "b">>,                 \* a stored email
    <<"z", "@", "b">>,                 \* no stored email
    <<"b", "o", "b">> }                \* neither

\* rows of `SELECT ... WHERE <col> = '<value>'`, in table order
RowsWhere(col, value) == SelectSeq(CustomerTable, LAMBDA r : r[col] = value)

\* rows of `SELECT CustomerId, Phone FROM Customer WHERE Phone LIKE '+%'`
RowsWithPlusPhone == SelectSeq(CustomerTable, LAMBDA r : startsWithPlus(r.Phone))

\* the first row of the scan whose normalised phone equals the normalised input
RECURSIVE scanPhones(_, _)
scanPhones(rows, normalizedInput) ==
  IF rows = <<>> THEN Null
  ELSE IF Head(rows).Phone # <<>> /\ normalize(Head(rows).Phone) = normalizedInput
       THEN Head(rows).CustomerId
       ELSE scanPhones(Tail(rows), normalizedInput)

\* the email branch of getCustomerIdFromIdentifier, and its final `return null`
emailLookup(identifier) ==
  IF includesAt(identifier)
  THEN IF RowsWhere("Email", identifier) # <<>>
       THEN [id |-> RowsWhere("Email", identifier)[1].CustomerId, queries |-> <<"email">>]
       ELSE [id |-> Null, queries |-> <<"email">>]
  ELSE [id |-> Null, queries |-> <<>>]

\* getCustomerIdFromIdentifier(identifier, db): the resolved id (or Null) and
\* the queries it ran against the store
getCustomerIdFromIdentifier(identifier) ==
  IF AllDigits(identifier)
  THEN [id |-> parseInt(identifier), queries |-> <<>>]
  ELSE IF startsWithPlus(identifier)
  THEN IF RowsWhere("Phone", identifier) # <<>>
       THEN [id |-> RowsWhere("Phone", identifier)[1].CustomerId,
             queries |-> <<"phone_exact">>]
       ELSE IF scanPhones(RowsWithPlusPhone, normalize(identifier)) # Null
       THEN [id |-> scanPhones(RowsWithPlusPhone, normalize(identifier)),
             queries |-> <<"phone_exact", "phone_all">>]
       ELSE [id |-> emailLookup(identifier).id,
             queries |-> <<"phone_exact", "phone_all">> \o emailLookup(identifier).queries]
  ELSE emailLookup(identifier)

\* ------------------------------------------------------------- messages
\* A message: type is "human", "ai" or "tool"; id = 0 until a reducer gives
\* it one (the reducer draws a fresh uuid; here the fresh id of a message is
\* its position in the list it joins, which no earlier message of that list
\* has); tool_calls is the request list of an assistant message;
\* tool_call_id links a tool result to its request (0 when there is none).
Content(kind, arg) == [kind |-> kind, arg |-> arg]
Msg(type, content, calls, callId) ==
  [id |-> 0, type |-> type, content |-> content, tool_calls |-> calls,
   tool_call_id |-> callId]
HumanMessage(content) == Msg("human", content, <<>>, 0)
AIMessage(content) == Msg("ai", content, <<>>, 0)
AIMessageWithCalls(content, calls) == Msg("ai", content, calls, 0)
ToolMessage(content, callId) == Msg("tool", content, <<>>, callId)

\* the reducer gives every message that has no id a fresh one
RECURSIVE assignIds(_, _)
assignIds(msgs, next) ==
  IF msgs = <<>> THEN <<>>
  ELSE IF Head(msgs).id = 0
       THEN <<[Head(msgs) EXCEPT !.id = next]>> \o assignIds(Tail(msgs), next + 1)
       ELSE <<Head(msgs)>> \o assignIds(Tail(msgs), next)

\* the merge of the messages reducer: a message whose id is already in the
\* list replaces that message in place, any other message is appended
RECURSIVE mergeById(_, _)
mergeById(left, right) ==
  IF right = <<>> THEN left
  ELSE LET m == Head(right)
           hit == {i \in 1..Len(left) : left[i].id = m.id}
       IN IF hit # {}
          THEN mergeById([left EXCEPT ![CHOOSE i \in hit : TRUE] = m], Tail(right))
          ELSE mergeById(Append(left, m), Tail(right))

\* a mutant of messagesReducer: the update is appended, ids are not looked up
messagesReducer_concat(left, right) == left \o assignIds(right, Len(left) + 1)

\* withLangGraph(z.custom<BaseMessage[]>(), MessagesZodMeta): the reducer of
\* the messages channel
messagesReducer(left, right) == mergeById(left, assignIds(right, Len(left) + 1))

\* a message the decision step or a tool node appends to a nested list
appendMessage(list, m) == messagesReducer(list, <<m>>)

\* ---------------------------------------------------------- node updates
\* What a node returns: the messages to hand to the reducer, and for each
\* other key either a value or NoUpdate (the key is not in the returned
\* object).  calls names the collaborators the node called.
NoUpdate == -3
NoUpdateStr == <<"<no update>">>
Update(msgs, cid, mem, calls) ==
  [messages |-> msgs, customerId |-> cid, loadedMemory |-> mem, calls |-> calls]
EmptyUpdate == Update(<<>>, NoUpdate, NoUpdateStr, {})

\* a mutant of shouldInterrupt: the edge never routes to human_input
shouldInterrupt_always_continue(cid) == "continue"

\* a mutant of shouldInterrupt: the two labels are swapped
shouldInterrupt_swapped(cid) == IF cid # Nil THEN "interrupt" ELSE "continue"

\* shouldInterrupt(state): state.customerId !== undefined ? "continue" : "interrupt"
shouldInterrupt(cid) == IF cid # Nil THEN "continue" ELSE "interrupt"

\* a mutant of verifyUnverified: the decision step is also asked after a
\* successful lookup and its response is appended too
verifyUnverified_decide(identifier) ==
  LET found == IF identifier # <<>> THEN getCustomerIdFromIdentifier(identifier)
               ELSE [id |-> Null, queries |-> <<>>]
  IN IF found.id # Null
     THEN Update(<<AIMessage(Content("verified", toString(found.id))),
                   AIMessage(Content("ask_identity", <<>>))>>, found.id,
                 NoUpdateStr, {"extract", "decide"})
     ELSE Update(<<AIMessage(Content("ask_identity", <<>>))>>, NoUpdate, NoUpdateStr,
                 {"extract", "decide"})

\* a mutant of verifyUnverified: after a failed lookup the node asks the
\* decision step a second time and appends both responses
verifyUnverified_twice(identifier) ==
  LET found == IF identifier # <<>> THEN getCustomerIdFromIdentifier(identifier)
               ELSE [id |-> Null, queries |-> <<>>]
      db == IF found.queries # <<>> THEN {"db"} ELSE {}
  IN IF found.id # Null
     THEN Update(<<AIMessage(Content("verified", toString(found.id)))>>, found.id,
                 NoUpdateStr, {"extract"} \cup db)
     ELSE Update(<<AIMessage(Content("ask_identity", <<>>)),
                   AIMessage(Content("ask_identity", <<>>))>>, NoUpdate, NoUpdateStr,
                 {"extract", "decide"} \cup db)

\* the `state.customerId === undefined` branch of verifyInfo, given the
\* identifier structured extraction returns (<<>> when it returns none)
verifyUnverified(identifier) ==
  LET found == IF identifier # <<>> THEN getCustomerIdFromIdentifier(identifier)
               ELSE [id |-> Null, queries |-> <<>>]
      db == IF found.queries # <<>> THEN {"db"} ELSE {}
  IN IF found.id # Null
     THEN Update(<<AIMessage(Content("verified", toString(found.id)))>>, found.id,
                 NoUpdateStr, {"extract"} \cup db)
     ELSE Update(<<AIMessage(Content("ask_identity", <<>>))>>, NoUpdate, NoUpdateStr,
                 {"extract", "decide"} \cup db)

\* a mutant of verifyInfo: the `customerId === undefined` test is dropped
verifyInfo_always(cid, identifier) == verifyUnverified(identifier)

\* a mutant of verifyInfo: the pass-through branch acknowledges the customer
verifyInfo_acknowledge(cid, identifier) ==
  IF cid = Nil THEN verifyUnverified(identifier)
  ELSE Update(<<AIMessage(Content("verified", toString(cid)))>>, NoUpdate, NoUpdateStr, {})

\* verifyInfo(state), given what structured extraction returns
verifyInfo(cid, identifier) ==
  IF cid = Nil THEN verifyUnverified(identifier) ELSE EmptyUpdate

\* a mutant of humanInput: the resume value is not appended
humanInput_drop(text) == EmptyUpdate

\* humanInput(state), given the text the caller resumes with
humanInput(text) == Update(<<HumanMessage(Content("user", text))>>, NoUpdate, NoUpdateStr, {})

\* ------------------------------------------------------ preference store
\* the preference strings the extraction step can name (free text: "pop "
\* ends with a space)
Genres == {"jazz", "rock", "pop "}
PreferenceLists == {<<>>, <<"jazz">>, <<"rock">>, <<"jazz", "rock">>, <<"jazz", "pop ">>}

\* the customer ids a run can hold: parseInt of an all-digits identifier, or
\* a CustomerId of the table
CustomerIdValues ==
  {parseInt(i) : i \in {j \in Identifiers : AllDigits(j)}}
    \cup {CustomerTable[i].CustomerId : i \in 1..Len(CustomerTable)}

\* InMemoryStore, namespace ["memory_profile", userId], key "user_memory":
\* a function from userId to the stored value, NoValue when there is none
StoreKeys == {toString(c) : c \in CustomerIdValues}
NoValue == [present |-> FALSE, customerId |-> <<>>, musicPreferences |-> <<>>]
StoredValue(profile) ==
  [present |-> TRUE, customerId |-> profile.customerId,
   musicPreferences |-> profile.musicPreferences]

\* Array.prototype.join(", ")
RECURSIVE join(_)
join(list) ==
  IF list = <<>> THEN <<>>
  ELSE IF Len(list) = 1 THEN <<list[1]>>
  ELSE <<list[1], ", ">> \o join(Tail(list))

\* a piece of text without the whitespace at its end
trimEnd(piece) ==
  CASE piece = "pop " -> "pop"
    [] piece = ", " -> ","
    [] piece = "Music Preferences: " -> "Music Preferences:"
    [] OTHER -> piece

\* String.prototype.trim() on a text given in pieces: the whitespace at the
\* end of the last piece goes (the texts trimmed here start with no
\* whitespace)
trim(text) == IF text = <<>> THEN <<>> ELSE [text EXCEPT ![Len(text)] = trimEnd(@)]

\* a mutant of formatUserMemory: only the first preference is listed
formatUserMemory_first(value) ==
  IF value.present /\ Len(value.musicPreferences) > 0
  THEN trim(<<"Music Preferences: ", value.musicPreferences[1]>>)
  ELSE <<>>

\* a mutant of formatUserMemory: the result is not trimmed
formatUserMemory_untrimmed(value) ==
  IF value.present /\ Len(value.musicPreferences) > 0
  THEN <<"Music Preferences: ">> \o join(value.musicPreferences)
  ELSE <<>>

\* formatUserMemory(userData)
formatUserMemory(value) ==
  trim(IF value.present /\ Len(value.musicPreferences) > 0
       THEN <<"Music Preferences: ">> \o join(value.musicPreferences)
       ELSE <<>>)

\* a mutant of loadMemory: with no customerId the node returns no message
loadMemory_silent(cid, st) ==
  IF cid = Nil
  THEN Update(<<>>, NoUpdate, <<>>, {})
  ELSE LET existing == st[toString(cid)]
           formatted == IF existing.present THEN formatUserMemory(existing) ELSE <<>>
       IN Update(<<HumanMessage(Content("user_preferences",
                    IF formatted # <<>> THEN formatted ELSE <<"none">>))>>,
                 NoUpdate, formatted, {"store_get"})

\* loadMemory(state), reading the store
loadMemory(cid, st) ==
  IF cid = Nil
  THEN Update(<<HumanMessage(Content("user_preferences", <<"none">>))>>, NoUpdate, <<>>, {})
  ELSE LET existing == st[toString(cid)]
           formatted == IF existing.present THEN formatUserMemory(existing) ELSE <<>>
       IN Update(<<HumanMessage(Content("user_preferences",
                    IF formatted # <<>> THEN formatted ELSE <<"none">>))>>,
                 NoUpdate, formatted, {"store_get"})

\* what structured extraction can return in createMemory: any profile that
\* fits UserProfileSchema
ExtractedProfiles(cid) ==
  [customerId : {toString(cid), <<"9">>}, musicPreferences : PreferenceLists]

\* a mutant of createMemoryPut: the extracted customerId field keys the record
createMemoryPut_by_field(cid, st, updatedMemory) ==
  IF updatedMemory.customerId \in StoreKeys
  THEN [st EXCEPT ![updatedMemory.customerId] = StoredValue(updatedMemory)]
  ELSE st

\* a mutant of createMemoryPut: the namespace leaves out the user id, so one
\* record serves every customer
createMemoryPut_shared(cid, st, updatedMemory) ==
  [k \in DOMAIN st |-> StoredValue(updatedMemory)]

\* a mutant of createMemoryPut: the new preferences are added to the stored ones
createMemoryPut_merge(cid, st, updatedMemory) ==
  [st EXCEPT ![toString(cid)] =
     StoredValue([updatedMemory EXCEPT
       !.musicPreferences = st[toString(cid)].musicPreferences \o @])]

\* inMemoryStore.put(namespace, key, { memory: updatedMemory }) in createMemory
createMemoryPut(cid, st, updatedMemory) ==
  [st EXCEPT ![toString(cid)] = StoredValue(updatedMemory)]

\* createMemory(state): the store after the node, given what structured
\* extraction returns
createMemory(cid, st, updatedMemory) ==
  IF cid = Nil THEN st ELSE createMemoryPut(cid, st, updatedMemory)

\* ------------------------------------------------------------ tool layer
InvoiceToolNames ==
  {"get_invoices_by_customer_sorted_by_date", "get_invoices_sorted_by_unit_price",
   "get_employee_by_invoice_and_customer"}
MusicToolNames == {"get_albums_by_artist", "get_songs_by_genre"}
DelegateNames == {"invoice_information_subagent", "music_catalog_subagent"}

\* the customer ids the decision step can write into a customerId argument
ArgumentCustomerIds == {1, 2}

\* a tool-call request: name, the customerId argument (Nil when the schema
\* has none) and the correlation id
ToolCall(name, argCid, id) == [name |-> name, customerId |-> argCid, id |-> id]

\* JavaScript's !customerId on number | undefined
falsy(cid) == cid = Nil \/ cid = 0

\* a mutant of invoiceTool: the `!customerId` guard is dropped
invoiceTool_unguarded(name, ctxCid, argCid) ==
  [result |-> "rows", queried |-> TRUE, scope |-> ctxCid]

\* an invoice tool of 02-invoice_subagent: customerId comes from
\* getCurrentTaskInput(); result kind, whether db.run was called, and the
\* customer id the query is scoped to
invoiceTool(name, ctxCid, argCid) ==
  IF falsy(ctxCid)
  THEN [result |-> "error_not_verified", queried |-> FALSE, scope |-> Nil]
  ELSE [result |-> "rows", queried |-> TRUE, scope |-> ctxCid]

\* an invoice tool of invoice_subagent.ts: customerId is a schema argument
invoiceToolLegacy(name, ctxCid, argCid) ==
  [result |-> "rows", queried |-> TRUE, scope |-> argCid]

\* the string a tool returns once its query has run, by its shape: the tools
\* return JSON.stringify(result) ("json_rows", or "json_empty" for []), but
\* get_songs_by_genre returns a sentence when no genre matches and
\* get_employee_by_invoice_and_customer one when no row matches
serialized(name, found) ==
  IF found THEN "json_rows"
  ELSE IF name = "get_songs_by_genre" THEN "text_no_songs_found"
  ELSE IF name = "get_employee_by_invoice_and_customer" THEN "text_no_employee_found"
  ELSE "json_empty"

\* the string a tool call returns: the error of the customerId guard, or the
\* serialized result
toolReturn(name, outcome, found) ==
  IF outcome.result = "rows" THEN serialized(name, found) ELSE outcome.result

\* ----------------------------------------------------- delegate wrappers
\* callInvoiceInformationSubagent / callMusicCatalogSubagent of 03-supervisor:
\* the state the sub-agent graph is invoked with.  state is the supervisor's
\* state (getCurrentTaskInput).  The input carries no loadedMemory, so the
\* sub-agent's state has the schema default "".
delegateInput(call, stateCid) ==
  IF call.name = "invoice_information_subagent"
  THEN [kind |-> "invoice", customerId |-> stateCid, loadedMemory |-> <<>>,
        messages |-> <<HumanMessage(Content("query", <<>>))>>]
  ELSE [kind |-> "music", customerId |-> Nil, loadedMemory |-> <<>>,
        messages |-> <<HumanMessage(Content("query", <<>>))>>]

\* the wrappers of supervisor.ts: the invoice wrapper puts the customerId
\* argument into the query text; no customerId is passed in the state
delegateInputLegacy(call, stateCid) ==
  IF call.name = "invoice_information_subagent"
  THEN [kind |-> "invoice", customerId |-> Nil, loadedMemory |-> <<>>,
        messages |-> <<HumanMessage(Content("query_for_customer", toString(call.customerId)))>>]
  ELSE [kind |-> "music", customerId |-> Nil, loadedMemory |-> <<>>,
        messages |-> <<HumanMessage(Content("query", <<>>))>>]

\* a mutant of delegateResult: the wrapper hands back the sub-agent's whole
\* message list and not only the content of its last message
delegateResult_transcript(subMsgs, call) ==
  [i \in 1..Len(subMsgs) |-> [subMsgs[i] EXCEPT !.id = 0]]
    \o <<ToolMessage(subMsgs[Len(subMsgs)].content, call.id)>>

\* what a delegate call adds to the supervisor's list: the wrapper returns
\* result.messages.at(-1).content and the supervisor's tool node wraps it in
\* the tool result of the request
delegateResult(subMsgs, call) == <<ToolMessage(subMsgs[Len(subMsgs)].content, call.id)>>

\* ------------------------------------------------------- sub-agent loops
\* generateMusicAssistantPrompt(memory): the part of the system prompt that
\* depends on the state
generateMusicAssistantPrompt(memory) == [role |-> "system", memory |-> memory]

hasToolCalls(m) == m.type = "ai" /\ Len(m.tool_calls) > 0

\* shouldContinue of 01-music_subagent.ts
shouldContinue(last) == IF hasToolCalls(last) THEN "end" ELSE "continue"

\* shouldContinue of the unnumbered music sub-agent
shouldContinueLegacy(last) == IF ~hasToolCalls(last) THEN "end" ELSE "continue"

\* the path map of addConditionalEdges("music_assistant", shouldContinue, ...):
\* continue -> music_tool_node, end -> END (the same in both variants)
musicEdge(label) == IF label = "continue" THEN "tools" ELSE "END"

\* the node that follows the assistant (model) node of a sub-agent loop;
\* the invoice sub-agent is a createAgent loop: tools iff tool calls
nextAfterAssistant(kind, isLegacy, last) ==
  IF kind = "music"
  THEN musicEdge(IF isLegacy THEN shouldContinueLegacy(last) ELSE shouldContinue(last))
  ELSE IF hasToolCalls(last) THEN "tools" ELSE "END"

\* the correlation ids of the calls of the message that joins a list at
\* position pos: distinct per message and per call
withCallIds(calls, pos) == [i \in 1..Len(calls) |-> [calls[i] EXCEPT !.id = pos * 10 + i]]

\* ------------------------------------------------------------------ state
VARIABLES
  entry,          \* the graph the caller invokes: "01", "03", "04" or "05"
  legacy,         \* TRUE for the unnumbered files (supervisor.ts, invoice_subagent.ts, ...)
  thread,         \* the thread id of the current run
  invokes,        \* invocations by the caller so far
  resumes,        \* resumes of the current thread so far
  pc,             \* the next node of the top-level graph
  messages, customerId, loadedMemory, remainingSteps,   \* the shared state
  store,          \* the preference store
  lastNode,       \* the top-level node that ran last
  lastCalls,      \* the collaborators that node called
  ran,            \* the top-level nodes that have run in this invocation, in order
  resumeText,     \* the text the caller last resumed this thread with
  extracted,      \* the identifier structured extraction returned in the
                  \* verify_info step that ran last (NotExtracted otherwise)
  supPc, supMessages, supRounds, supPending,            \* the nested supervisor run
  subKind, subPc, subMessages, subCustomerId, subRemaining, subRounds, subLast,
  subBudget,      \* the remainingSteps the running sub-agent was invoked with
  subLoadedMemory,  \* the loadedMemory of the running sub-agent's state
  lastTools,      \* the invoice tool invocations of the last tool round of the
                  \* sub-agent that is running
  inputCustomerId,  \* the customerId the caller put into the input of the invoke
  runs,           \* concurrent runs of the memory graph: for each run its
                  \* position, customerId, loadedMemory and extracted profile
  puts,           \* the runs whose put the store has executed, in order
  lookup,         \* a call of getCustomerIdFromIdentifier: its argument and,
                  \* once it has returned, its result and the queries it ran
  songsCall,      \* a call of get_songs_by_genre: its argument, its position,
                  \* the queries it has run and what it returned
  evalRun,        \* a run of the trajectory evaluators on one example: the
                  \* two trajectories, the loop's position and the scores
  datasetRun      \* calls of getOrCreateDataset with one name: the datasets
                  \* of that name in the service and the position of the call

topState == <<messages, customerId, loadedMemory, remainingSteps>>
topVars == <<thread, invokes, resumes, pc, messages, customerId, loadedMemory,
             remainingSteps, store, lastNode, lastCalls, ran, resumeText, extracted>>
supVars == <<supPc, supMessages, supRounds, supPending>>
subVars == <<subKind, subPc, subMessages, subCustomerId, subRemaining, subRounds, subLast,
             subBudget, subLoadedMemory>>
conc == <<runs, puts>>
fnVars == <<songsCall, evalRun, datasetRun>>
vars == <<entry, legacy, topVars, supVars, subVars, lastTools, inputCustomerId, conc,
          lookup, fnVars>>

\* no function-level call is in progress
NoSongsCall == [genre |-> <<>>, pc |-> "idle", genreIds |-> <<>>, queries |-> <<>>,
                result |-> <<>>]
NoEvalRun == [expected |-> <<>>, output |-> <<>>, pc |-> "idle", i |-> 0, j |-> 0,
              unmatchedSteps |-> 0, score |-> 0, exact |-> 0]
NoDatasetRun == [examples |-> 0, datasets |-> <<>>, pc |-> "idle", calls |-> 0, next |-> 0]
fnIdle == songsCall = NoSongsCall /\ evalRun = NoEvalRun /\ datasetRun = NoDatasetRun

\* the text of the caller's first message of an invocation
InitialText == <<"t0">>
\* the texts the caller can resume a suspended run with
UserTexts == {<<"t1">>, <<"t2">>}
\* the customerId a caller of the supervisor graph can put in its input
CallerCustomerIds == {Nil, 0, 1}
\* the customerId a caller of a top-level graph (04, 05) can put in its input
TopInputCustomerIds == {Nil, 1}
\* the remainingSteps a caller of the music graph can put in its input
ConfiguredSteps == {1, DefaultRemainingSteps}

Last(seq) == seq[Len(seq)]

\* a mutant of mapInput: every key of the caller's input reaches the state
mapInput_all_keys(graph, cid) == cid

\* the customerId of the state a graph starts with, given the customerId of
\* the caller's input: new StateGraph(AgentState, { input: InputStateAnnotation })
\* of the top-level graphs takes only `messages` from the input; the
\* supervisor graph (03) takes every key of its state schema
mapInput(graph, cid) == IF graph \in {"04", "05"} THEN Nil ELSE cid

\* no call of getCustomerIdFromIdentifier on its own
NoLookup == [identifier |-> <<>>, done |-> FALSE, id |-> Null, queries |-> <<>>]

\* verify_info did not call structured extraction
NotExtracted == <<"<not extracted>">>

Init ==
  /\ entry \in {"01", "03", "04", "05"}
  /\ legacy \in BOOLEAN
  /\ entry = "05" => ~legacy
  /\ thread = 1 /\ invokes = 1 /\ resumes = 0
  /\ pc = CASE entry = "01" -> "subagent" [] entry = "03" -> "supervisor"
            [] OTHER -> "verify_info"
  /\ messages = IF entry = "01" THEN <<>>
                ELSE messagesReducer(<<>>, <<HumanMessage(Content("user", InitialText))>>)
  /\ subMessages = IF entry = "01"
                   THEN messagesReducer(<<>>, <<HumanMessage(Content("user", InitialText))>>)
                   ELSE <<>>
  /\ inputCustomerId \in CASE entry = "03" -> CallerCustomerIds
                           [] entry = "01" -> {Nil}
                           [] OTHER -> TopInputCustomerIds
  /\ customerId = mapInput(entry, inputCustomerId)
  /\ runs = <<>> /\ puts = <<>> /\ lookup = NoLookup /\ fnIdle
  /\ loadedMemory = <<>>
  /\ remainingSteps = DefaultRemainingSteps
  /\ store = [k \in StoreKeys |-> NoValue]
  /\ lastNode = "START" /\ lastCalls = {}
  /\ ran = <<>> /\ resumeText = <<>> /\ extracted = NotExtracted
  /\ supPc = "idle" /\ supMessages = <<>> /\ supRounds = 0 /\ supPending = <<>>
  /\ subKind = IF entry = "01" THEN "music" ELSE "none"
  /\ subPc = IF entry = "01" THEN "assistant" ELSE "idle"
  /\ subCustomerId = Nil
  /\ subRemaining \in IF entry = "01" THEN ConfiguredSteps ELSE {DefaultRemainingSteps}
  /\ subBudget = subRemaining /\ subLoadedMemory = <<>>
  /\ subRounds = 0 /\ subLast = "START"
  /\ lastTools = {}

\* the graph applies a node's update to the shared state
Apply(upd) ==
  /\ messages' = messagesReducer(messages, upd.messages)
  /\ customerId' = IF upd.customerId = NoUpdate THEN customerId ELSE upd.customerId
  /\ loadedMemory' = IF upd.loadedMemory = NoUpdateStr THEN loadedMemory
                     ELSE upd.loadedMemory
  /\ lastCalls' = upd.calls
  /\ UNCHANGED remainingSteps

\* a mutant of afterVerified: the memory graph keeps the wiring of 04
afterVerified_skip_load == "supervisor"

\* the node a "continue" leads to: addConditionalEdges("verify_info", ...)
afterVerified == IF entry = "05" THEN "load_memory" ELSE "supervisor"

VerifyInfo ==
  /\ pc = "verify_info"
  /\ \E identifier \in Identifiers :
       /\ Apply(verifyInfo(customerId, identifier))
       /\ extracted' = IF customerId = Nil THEN identifier ELSE NotExtracted
  /\ pc' = IF shouldInterrupt(customerId') = "continue" THEN afterVerified
           ELSE "human_input"
  /\ lastNode' = "verify_info" /\ ran' = Append(ran, "verify_info")
  /\ UNCHANGED <<entry, legacy, inputCustomerId, conc, lookup, fnVars, thread, invokes, resumes, store, resumeText, supVars,
                 subVars, lastTools>>

\* human_input: the run is suspended here until the caller resumes it
HumanInput ==
  /\ pc = "human_input"
  /\ resumes < MaxResumes
  /\ \E text \in UserTexts : Apply(humanInput(text)) /\ resumeText' = text
  /\ pc' = "verify_info"
  /\ resumes' = resumes + 1
  /\ lastNode' = "human_input" /\ ran' = Append(ran, "human_input")
  /\ extracted' = NotExtracted
  /\ UNCHANGED <<entry, legacy, inputCustomerId, conc, lookup, fnVars, thread, invokes, store, supVars, subVars, lastTools>>

LoadMemory ==
  /\ pc = "load_memory"
  /\ Apply(loadMemory(customerId, store))
  /\ pc' = "supervisor"
  /\ lastNode' = "load_memory" /\ ran' = Append(ran, "load_memory")
  /\ extracted' = NotExtracted
  /\ UNCHANGED <<entry, legacy, inputCustomerId, conc, lookup, fnVars, thread, invokes, resumes, store, resumeText, supVars,
                 subVars, lastTools>>

CreateMemory ==
  /\ pc = "create_memory"
  /\ \E updatedMemory \in (IF customerId = Nil THEN {[customerId |-> <<>>, musicPreferences |-> <<>>]}
                           ELSE ExtractedProfiles(customerId)) :
       store' = createMemory(customerId, store, updatedMemory)
  /\ lastCalls' = IF customerId = Nil THEN {} ELSE {"extract", "store_put"}
  /\ pc' = "END"
  /\ lastNode' = "create_memory" /\ ran' = Append(ran, "create_memory")
  /\ UNCHANGED <<entry, legacy, inputCustomerId, conc, lookup, fnVars, thread, invokes, resumes, topState, resumeText, extracted,
                 supVars, subVars, lastTools>>

\* --------------------------------------------------- the supervisor node
\* supervisorNode starts: supervisor.invoke(state)
SupervisorEnter ==
  /\ pc = "supervisor" /\ supPc = "idle"
  /\ supMessages' = messages
  /\ supPc' = "model" /\ supRounds' = 0 /\ supPending' = <<>>
  /\ extracted' = NotExtracted
  /\ UNCHANGED <<entry, legacy, inputCustomerId, conc, lookup, fnVars, thread, invokes, resumes, pc, topState, store, lastNode,
                 lastCalls, ran, resumeText, subVars, lastTools>>

\* the delegate calls the supervisor's decision step can request
SupervisorChoices ==
  IF legacy
  THEN {ToolCall("music_catalog_subagent", Nil, 0)}
         \cup {ToolCall("invoice_information_subagent", c, 0) : c \in ArgumentCustomerIds}
  ELSE {ToolCall(n, Nil, 0) : n \in DelegateNames}

\* the request lists the supervisor's decision step can attach to one
\* message: one delegate, or the invoice delegate and then the music delegate
SupervisorCallLists ==
  {<<c>> : c \in SupervisorChoices}
    \cup {<<c, ToolCall("music_catalog_subagent", Nil, 0)>> :
            c \in {d \in SupervisorChoices : d.name = "invoice_information_subagent"}}

\* the supervisor's decision step answers, or requests delegates
SupervisorModel ==
  /\ supPc = "model"
  /\ \/ /\ supMessages' = appendMessage(supMessages,
                                         AIMessage(Content("answer", <<"supervisor">>)))
        /\ supPc' = "end"
        /\ UNCHANGED <<supRounds, supPending>>
     \/ /\ supRounds < MaxSupRounds
        /\ \E calls \in SupervisorCallLists :
             /\ supPending' = withCallIds(calls, Len(supMessages) + 1)
             /\ supMessages' = appendMessage(supMessages,
                                 AIMessageWithCalls(Content("", <<>>), supPending'))
        /\ supPc' = "tools"
        /\ UNCHANGED supRounds
  /\ UNCHANGED <<entry, legacy, inputCustomerId, conc, lookup, fnVars, topVars, subVars, lastTools>>

\* a delegate wrapper invokes its sub-agent graph
DelegateStart ==
  /\ supPc = "tools" /\ supPending # <<>> /\ subPc = "idle"
  /\ LET input == IF legacy THEN delegateInputLegacy(Head(supPending), customerId)
                  ELSE delegateInput(Head(supPending), customerId)
     IN /\ subKind' = input.kind
        /\ subCustomerId' = input.customerId
        /\ subLoadedMemory' = input.loadedMemory
        /\ subMessages' = messagesReducer(<<>>, input.messages)
  /\ subRemaining' = DefaultRemainingSteps /\ subBudget' = DefaultRemainingSteps
  /\ subRounds' = 0 /\ subPc' = "assistant" /\ subLast' = "START"
  /\ UNCHANGED <<entry, legacy, inputCustomerId, conc, lookup, fnVars, topVars, supVars, lastTools>>

\* the wrapper returns result.messages.at(-1).content; the supervisor's tool
\* node makes it the tool result of the request
DelegateReturn ==
  /\ supPc = "tools" /\ supPending # <<>> /\ subPc = "END"
  /\ supMessages' = messagesReducer(supMessages,
                                    delegateResult(subMessages, Head(supPending)))
  /\ supPending' = Tail(supPending)
  /\ supPc' = IF Tail(supPending) = <<>> THEN "model" ELSE "tools"
  /\ supRounds' = IF Tail(supPending) = <<>> THEN supRounds + 1 ELSE supRounds
  /\ subKind' = "none" /\ subPc' = "idle" /\ subMessages' = <<>>
  /\ subCustomerId' = Nil /\ subRounds' = 0 /\ subLast' = "START"
  /\ subLoadedMemory' = <<>>
  /\ lastTools' = {}
  /\ UNCHANGED <<entry, legacy, inputCustomerId, conc, lookup, fnVars, topVars, subRemaining, subBudget>>

\* supervisorNode returns { messages: result.messages }
SupervisorReturn ==
  /\ pc = "supervisor" /\ supPc = "end"
  /\ Apply(Update(supMessages, NoUpdate, NoUpdateStr, {"decide"}))
  /\ pc' = IF entry = "05" THEN "create_memory" ELSE "END"
  /\ lastNode' = "supervisor" /\ ran' = Append(ran, "supervisor")
  /\ supPc' = "idle" /\ supMessages' = <<>> /\ supRounds' = 0 /\ supPending' = <<>>
  /\ UNCHANGED <<entry, legacy, inputCustomerId, conc, lookup, fnVars, thread, invokes, resumes, store, resumeText, extracted,
                 subVars, lastTools>>

\* ------------------------------------------------------- sub-agent nodes
\* the tool calls a sub-agent's decision step can request
SubChoices ==
  IF subKind = "music" THEN {ToolCall(n, Nil, 0) : n \in MusicToolNames}
  ELSE IF legacy THEN {ToolCall(n, c, 0) : n \in InvoiceToolNames, c \in ArgumentCustomerIds}
  ELSE {ToolCall(n, Nil, 0) : n \in InvoiceToolNames}

\* what the decision step of a sub-agent can return: an answer, or a
\* message with one tool-call request
SubResponses ==
  {AIMessage(Content("answer", <<subKind>>))}
    \cup {AIMessageWithCalls(Content("", <<>>), withCallIds(<<c>>, Len(subMessages) + 1)) :
            c \in SubChoices}

\* music_assistant, or the model node of the invoice agent, and the edge
\* that follows it
SubAssistant ==
  /\ subPc = "assistant"
  /\ \E response \in SubResponses :
       /\ nextAfterAssistant(subKind, legacy, response) = "tools" => subRounds < MaxSubRounds
       /\ subMessages' = appendMessage(subMessages, response)
       /\ subPc' = nextAfterAssistant(subKind, legacy, response)
  /\ subLast' = "assistant"
  /\ UNCHANGED <<entry, legacy, inputCustomerId, conc, lookup, fnVars, topVars, supVars, subKind, subCustomerId, subRemaining,
                 subBudget, subLoadedMemory, subRounds, lastTools>>

\* one tool call, run by the tool node in the sub-agent's context
runTool(call) ==
  IF subKind = "music" THEN [result |-> "rows", queried |-> TRUE, scope |-> Nil]
  ELSE IF legacy THEN invoiceToolLegacy(call.name, subCustomerId, call.customerId)
  ELSE invoiceTool(call.name, subCustomerId, call.customerId)

logEntry(call) ==
  [tool |-> call.name, ctx |-> subCustomerId, stateCid |-> customerId,
   arg |-> call.customerId, result |-> runTool(call).result,
   queried |-> runTool(call).queried, scope |-> runTool(call).scope]

\* the tool node: one tool result per tool call of the last message
SubTools ==
  /\ subPc = "tools"
  /\ \E found \in BOOLEAN :
       LET calls == Last(subMessages).tool_calls
           results == [i \in 1..Len(calls) |->
                         ToolMessage(Content(toolReturn(calls[i].name, runTool(calls[i]),
                                                        found), <<>>),
                                     calls[i].id)]
       IN /\ subMessages' = messagesReducer(subMessages, results)
          /\ lastTools' = IF subKind = "invoice"
                          THEN {logEntry(calls[i]) : i \in 1..Len(calls)}
                          ELSE {}
  /\ subRounds' = subRounds + 1
  /\ subPc' = "assistant"
  /\ subLast' = "tools"
  /\ UNCHANGED <<entry, legacy, inputCustomerId, conc, lookup, fnVars, topVars, supVars, subKind, subCustomerId, subRemaining,
                 subBudget, subLoadedMemory>>

\* ------------------------------------------------------------ the caller
\* a mutant of NewTurn: the later invoke starts from a fresh state
NewTurn_fresh_state ==
  /\ pc = "END" /\ entry \in {"04", "05"} /\ invokes < MaxInvokes
  /\ messages' = messagesReducer(<<>>, <<HumanMessage(Content("user", InitialText))>>)
  /\ customerId' = mapInput(entry, inputCustomerId) /\ loadedMemory' = <<>>
  /\ invokes' = invokes + 1
  /\ pc' = "verify_info" /\ lastNode' = "START" /\ lastCalls' = {} /\ ran' = <<>>
  /\ UNCHANGED <<entry, legacy, inputCustomerId, conc, lookup, fnVars, thread, resumes, remainingSteps,
                 store, resumeText, extracted, supVars, subVars, lastTools>>

\* a later invoke on the same thread: the checkpointed state plus a message
NewTurn ==
  /\ pc = "END" /\ entry \in {"04", "05"} /\ invokes < MaxInvokes
  /\ messages' = messagesReducer(messages, <<HumanMessage(Content("user", InitialText))>>)
  /\ invokes' = invokes + 1
  /\ pc' = "verify_info" /\ lastNode' = "START" /\ lastCalls' = {} /\ ran' = <<>>
  /\ UNCHANGED <<entry, legacy, inputCustomerId, conc, lookup, fnVars, thread, resumes, customerId, loadedMemory, remainingSteps,
                 store, resumeText, extracted, supVars, subVars, lastTools>>

\* an invoke on a new thread: a fresh state; the preference store persists
NewThread ==
  /\ pc = "END" /\ entry = "05" /\ invokes < MaxInvokes
  /\ messages' = messagesReducer(<<>>, <<HumanMessage(Content("user", InitialText))>>)
  /\ thread' = thread + 1 /\ invokes' = invokes + 1 /\ resumes' = 0
  /\ customerId' = mapInput(entry, inputCustomerId) /\ loadedMemory' = <<>>
  /\ pc' = "verify_info" /\ lastNode' = "START" /\ lastCalls' = {} /\ ran' = <<>>
  /\ resumeText' = <<>>
  /\ UNCHANGED <<entry, legacy, inputCustomerId, conc, lookup, fnVars, remainingSteps, store, extracted, supVars, subVars,
                 lastTools>>

Next ==
  \/ VerifyInfo \/ HumanInput \/ LoadMemory \/ CreateMemory
  \/ SupervisorEnter \/ SupervisorModel \/ DelegateStart \/ DelegateReturn
  \/ SupervisorReturn \/ SubAssistant \/ SubTools
  \/ NewTurn \/ NewThread

Spec == Init /\ [][Next]_vars

\* --------------------------------------------- a collaborator that fails
\* No node of the memory graph catches an exception and no retry policy is
\* configured: a rejected collaborator call rejects the node, and the invoke
\* ends there without the node's update.
failedRun ==
  /\ pc' = "FAILED"
  /\ supPc' = "idle" /\ supMessages' = <<>> /\ supRounds' = 0 /\ supPending' = <<>>
  /\ subKind' = "none" /\ subPc' = "idle" /\ subMessages' = <<>>
  /\ subCustomerId' = Nil /\ subRounds' = 0 /\ subLast' = "START"
  /\ subLoadedMemory' = <<>> /\ lastTools' = {}
  /\ UNCHANGED <<entry, legacy, inputCustomerId, conc, lookup, fnVars, thread, invokes, resumes,
                 topState, lastNode, lastCalls, ran, resumeText, extracted,
                 subRemaining, subBudget>>

\* verifyInfo: the extraction call or a customer query rejects
VerifyInfoFails ==
  /\ pc = "verify_info" /\ customerId = Nil
  /\ store' = store
  /\ failedRun

\* loadMemory: inMemoryStore.get rejects
LoadMemoryFails ==
  /\ pc = "load_memory" /\ customerId # Nil
  /\ store' = store
  /\ failedRun

\* supervisorNode: a decision step, a delegate or a tool query rejects
SupervisorFails ==
  /\ pc = "supervisor"
  /\ store' = store
  /\ failedRun

\* a mutant of createMemoryFailed: the put precedes the extraction call
createMemoryFailed_after_put(cid, st, updatedMemory) ==
  createMemoryPut(cid, st, updatedMemory)

\* createMemory when the structured-extraction call rejects: the await
\* throws before inMemoryStore.put is reached
createMemoryFailed(cid, st, updatedMemory) == st

CreateMemoryFails ==
  /\ pc = "create_memory" /\ customerId # Nil
  /\ \E updatedMemory \in ExtractedProfiles(customerId) :
       store' = createMemoryFailed(customerId, store, updatedMemory)
  /\ failedRun

FailInit == Init /\ entry = "05"

FailNext ==
  \/ Next
  \/ VerifyInfoFails \/ LoadMemoryFails \/ SupervisorFails \/ CreateMemoryFails

FailSpec == FailInit /\ [][FailNext]_vars

\* ------------------------------------------- the memory nodes on any state
\* loadMemory and createMemory as functions of the state they are called
\* with: any customerId (absent included) and any store with at most one
\* saved profile.
EmptyStore == [k \in StoreKeys |-> NoValue]
NodeStores ==
  {EmptyStore}
    \cup {[EmptyStore EXCEPT ![k] = StoredValue([customerId |-> k, musicPreferences |-> p])] :
            k \in StoreKeys, p \in PreferenceLists}

NodeInit ==
  /\ entry = "05" /\ legacy = FALSE
  /\ thread = 1 /\ invokes = 1 /\ resumes = 0
  /\ pc \in {"load_memory", "create_memory"}
  /\ messages = messagesReducer(<<>>, <<HumanMessage(Content("user", InitialText))>>)
  /\ inputCustomerId = Nil /\ runs = <<>> /\ puts = <<>> /\ lookup = NoLookup /\ fnIdle
  /\ customerId \in {Nil} \cup CustomerIdValues
  /\ loadedMemory \in {<<>>, <<"Music Preferences: ", "jazz">>}
  /\ remainingSteps = DefaultRemainingSteps
  /\ store \in NodeStores
  /\ lastNode = "START" /\ lastCalls = {}
  /\ ran = <<>> /\ resumeText = <<>> /\ extracted = NotExtracted
  /\ supPc = "idle" /\ supMessages = <<>> /\ supRounds = 0 /\ supPending = <<>>
  /\ subKind = "none" /\ subPc = "idle" /\ subMessages = <<>>
  /\ subCustomerId = Nil /\ subRemaining = DefaultRemainingSteps
  /\ subBudget = DefaultRemainingSteps /\ subLoadedMemory = <<>>
  /\ subRounds = 0 /\ subLast = "START"
  /\ lastTools = {}

NodeNext == LoadMemory \/ CreateMemory

NodeSpec == NodeInit /\ [][NodeNext]_vars

\* ------------------------------------- concurrent runs of the memory graph
\* Two invocations of the compiled memory graph under different thread ids,
\* both past verification, interleaved at the awaits of their nodes.  The
\* module-level inMemoryStore is the only state they share.  createMemory
\* awaits the structured extraction and then the put: two steps.
Runs == {1, 2}
ConcCustomerIds == {1, 2}
NoProfile == [customerId |-> <<>>, musicPreferences |-> <<>>]

ConcInit ==
  /\ entry = "05" /\ legacy = FALSE
  /\ thread = 1 /\ invokes = 1 /\ resumes = 0
  /\ pc = "END"
  /\ messages = <<>>
  /\ inputCustomerId = Nil /\ customerId = Nil
  /\ loadedMemory = <<>>
  /\ remainingSteps = DefaultRemainingSteps
  /\ store = EmptyStore
  /\ lastNode = "START" /\ lastCalls = {}
  /\ ran = <<>> /\ resumeText = <<>> /\ extracted = NotExtracted
  /\ supPc = "idle" /\ supMessages = <<>> /\ supRounds = 0 /\ supPending = <<>>
  /\ subKind = "none" /\ subPc = "idle" /\ subMessages = <<>>
  /\ subCustomerId = Nil /\ subRemaining = DefaultRemainingSteps
  /\ subBudget = DefaultRemainingSteps /\ subLoadedMemory = <<>>
  /\ subRounds = 0 /\ subLast = "START"
  /\ lastTools = {}
  /\ runs \in [Runs -> [pc : {"load_memory"}, customerId : ConcCustomerIds,
                        loadedMemory : {<<>>}, updatedMemory : {NoProfile}]]
  /\ puts = <<>>
  /\ lookup = NoLookup /\ fnIdle

\* the variables of the single run, which the concurrent runs leave alone
singleRun ==
  <<entry, legacy, thread, invokes, resumes, pc, messages, customerId, loadedMemory,
    remainingSteps, lastNode, lastCalls, ran, resumeText, extracted, supVars, subVars,
    lastTools, inputCustomerId, lookup, fnVars>>

\* load_memory of run r
ConcLoad(r) ==
  /\ runs[r].pc = "load_memory"
  /\ runs' = [runs EXCEPT ![r].pc = "supervisor",
                          ![r].loadedMemory = loadMemory(runs[r].customerId, store).loadedMemory]
  /\ UNCHANGED <<singleRun, store, puts>>

\* the supervisor node of run r: it does not use the store
ConcSupervisor(r) ==
  /\ runs[r].pc = "supervisor"
  /\ runs' = [runs EXCEPT ![r].pc = "create_memory"]
  /\ UNCHANGED <<singleRun, store, puts>>

\* create_memory of run r up to the structured extraction's answer
ConcExtract(r) ==
  /\ runs[r].pc = "create_memory"
  /\ \E updatedMemory \in ExtractedProfiles(runs[r].customerId) :
       runs' = [runs EXCEPT ![r].pc = "create_memory_put",
                            ![r].updatedMemory = updatedMemory]
  /\ UNCHANGED <<singleRun, store, puts>>

\* create_memory of run r from the put to its return
ConcPut(r) ==
  /\ runs[r].pc = "create_memory_put"
  /\ store' = createMemory(runs[r].customerId, store, runs[r].updatedMemory)
  /\ puts' = Append(puts, r)
  /\ runs' = [runs EXCEPT ![r].pc = "END"]
  /\ UNCHANGED singleRun

ConcNext ==
  \E r \in Runs : ConcLoad(r) \/ ConcSupervisor(r) \/ ConcExtract(r) \/ ConcPut(r)

ConcSpec == ConcInit /\ [][ConcNext]_vars

\* ------------------------------------ getCustomerIdFromIdentifier by itself
\* getCustomerIdFromIdentifier applied to any identifier string of up to
\* MaxIdentifierLen characters of IdentifierChars.
IdentifierChars == {"+", "1", "5", " ", "(", "@", "c", "b"}
LookupIdentifiers == UNION {[1..n -> IdentifierChars] : n \in 0..MaxIdentifierLen}

LookupInit ==
  /\ entry = "05" /\ legacy = FALSE
  /\ thread = 1 /\ invokes = 1 /\ resumes = 0
  /\ pc = "END"
  /\ messages = <<>>
  /\ inputCustomerId = Nil /\ customerId = Nil
  /\ loadedMemory = <<>>
  /\ remainingSteps = DefaultRemainingSteps
  /\ store = EmptyStore
  /\ lastNode = "START" /\ lastCalls = {}
  /\ ran = <<>> /\ resumeText = <<>> /\ extracted = NotExtracted
  /\ supPc = "idle" /\ supMessages = <<>> /\ supRounds = 0 /\ supPending = <<>>
  /\ subKind = "none" /\ subPc = "idle" /\ subMessages = <<>>
  /\ subCustomerId = Nil /\ subRemaining = DefaultRemainingSteps
  /\ subBudget = DefaultRemainingSteps /\ subLoadedMemory = <<>>
  /\ subRounds = 0 /\ subLast = "START"
  /\ lastTools = {}
  /\ runs = <<>> /\ puts = <<>>
  /\ lookup \in {[NoLookup EXCEPT !.identifier = i] : i \in LookupIdentifiers}
  /\ fnIdle

\* the call returns
Lookup ==
  /\ ~lookup.done
  /\ lookup' = [identifier |-> lookup.identifier, done |-> TRUE,
                id |-> getCustomerIdFromIdentifier(lookup.identifier).id,
                queries |-> getCustomerIdFromIdentifier(lookup.identifier).queries]
  /\ UNCHANGED <<entry, legacy, topVars, supVars, subVars, lastTools, inputCustomerId,
                 conc, fnVars>>

LookupNext == Lookup

LookupSpec == LookupInit /\ [][LookupNext]_vars

\* ------------------------------------------------ a function on its own
\* the graph variables while a single function is called on its own
graphIdle ==
  /\ entry = "05" /\ legacy = FALSE
  /\ thread = 1 /\ invokes = 1 /\ resumes = 0
  /\ pc = "END"
  /\ messages = <<>>
  /\ inputCustomerId = Nil /\ customerId = Nil
  /\ loadedMemory = <<>>
  /\ remainingSteps = DefaultRemainingSteps
  /\ store = EmptyStore
  /\ lastNode = "START" /\ lastCalls = {}
  /\ ran = <<>> /\ resumeText = <<>> /\ extracted = NotExtracted
  /\ supPc = "idle" /\ supMessages = <<>> /\ supRounds = 0 /\ supPending = <<>>
  /\ subKind = "none" /\ subPc = "idle" /\ subMessages = <<>>
  /\ subCustomerId = Nil /\ subRemaining = DefaultRemainingSteps
  /\ subBudget = DefaultRemainingSteps /\ subLoadedMemory = <<>>
  /\ subRounds = 0 /\ subLast = "START"
  /\ lastTools = {}
  /\ runs = <<>> /\ puts = <<>> /\ lookup = NoLookup

graphVars == <<entry, legacy, topVars, supVars, subVars, lastTools, inputCustomerId, conc,
               lookup>>

\* ------------------------------------------------------ get_songs_by_genre
\* The rows of the Genre table the tool reads: more rows than the LIMIT of
\* the genre query, with names over a small alphabet.
GenreTable ==
  << [GenreId |-> 1, Name |-> <<"R", "o">>],
     [GenreId |-> 2, Name |-> <<"j">>],
     [GenreId |-> 3, Name |-> <<"r", "r">>],
     [GenreId |-> 4, Name |-> <<"o", "j">>],
     [GenreId |-> 5, Name |-> <<"J", "o">>],
     [GenreId |-> 6, Name |-> <<"o">>],
     [GenreId |-> 7, Name |-> <<"r", "j", "o">>],
     [GenreId |-> 8, Name |-> <<"R">>],
     [GenreId |-> 9, Name |-> <<"j", "j">>] >>

\* LIMIT 8 of the genre query
GenreLimit == 8

\* the genre arguments the decision step can pass: every string of up to
\* MaxGenreLen characters of GenreChars ('_' is a wildcard of LIKE)
GenreChars == {"r", "R", "o", "j", "_"}
GenreArguments == UNION {[1..n -> GenreChars] : n \in 0..MaxGenreLen}

\* LIKE compares ASCII letters without regard to case
lower(ch) == CASE ch = "R" -> "r" [] ch = "J" -> "j" [] OTHER -> ch

\* text LIKE pattern: '%' matches any run of characters, '_' any one
RECURSIVE like(_, _)
like(text, pattern) ==
  IF pattern = <<>> THEN text = <<>>
  ELSE IF Head(pattern) = "%"
       THEN like(text, Tail(pattern)) \/ (text # <<>> /\ like(Tail(text), pattern))
       ELSE /\ text # <<>>
            /\ Head(pattern) = "_" \/ lower(Head(pattern)) = lower(Head(text))
            /\ like(Tail(text), Tail(pattern))

\* the rows WHERE Name LIKE '%genre%' selects
matchingGenreIds(genre) ==
  {GenreTable[r].GenreId : r \in {r \in 1..Len(GenreTable) :
                                   like(GenreTable[r].Name, <<"%">> \o genre \o <<"%">>)}}

\* a set of ids as a list, in the order of the table
RECURSIVE inTableOrder(_)
inTableOrder(ids) ==
  IF ids = {} THEN <<>>
  ELSE LET first == CHOOSE x \in ids : \A y \in ids : x <= y
       IN <<first>> \o inTableOrder(ids \ {first})

\* the results the genre query can have: the query has no ORDER BY, so
\* LIMIT 8 keeps any 8 of the matching rows when there are more
min(a, b) == IF a < b THEN a ELSE b
genreResults(genre) ==
  LET rows == matchingGenreIds(genre)
      n == min(GenreLimit, Cardinality(rows))
  IN {inTableOrder(kept) : kept \in {k \in SUBSET rows : Cardinality(k) = n}}

SongsInit ==
  /\ graphIdle
  /\ songsCall \in {[NoSongsCall EXCEPT !.genre = g, !.pc = "genre_query"] :
                      g \in GenreArguments}
  /\ evalRun = NoEvalRun /\ datasetRun = NoDatasetRun

\* a mutant of songsAfterGenreQuery: the songs query runs for an empty match
songsAfterGenreQuery_always_query(call, genreResult) ==
  [call EXCEPT !.pc = "songs_query", !.genreIds = genreResult,
               !.queries = Append(@, [kind |-> "genre", genre |-> call.genre])]

\* the genre query has returned: `if (!genreResult || genreResult.length === 0)`
songsAfterGenreQuery(call, genreResult) ==
  IF genreResult = <<>>
  THEN [call EXCEPT !.pc = "done",
                    !.queries = Append(@, [kind |-> "genre", genre |-> call.genre]),
                    !.result = <<"No songs found for the genre: ">> \o call.genre]
  ELSE [call EXCEPT !.pc = "songs_query", !.genreIds = genreResult,
                    !.queries = Append(@, [kind |-> "genre", genre |-> call.genre])]

\* db.run(genreQuery) and the test of its result
SongsGenreQuery ==
  /\ songsCall.pc = "genre_query"
  /\ \E genreResult \in genreResults(songsCall.genre) :
       songsCall' = songsAfterGenreQuery(songsCall, genreResult)
  /\ UNCHANGED <<graphVars, evalRun, datasetRun>>

\* db.run(songsQuery) with WHERE Track.GenreId IN (genreIds), and the return
SongsSongsQuery ==
  /\ songsCall.pc = "songs_query"
  /\ \E found \in BOOLEAN :
       songsCall' = [songsCall EXCEPT
                       !.pc = "done",
                       !.queries = Append(@, [kind |-> "songs", genreIds |-> songsCall.genreIds]),
                       !.result = <<IF found THEN "json_rows" ELSE "json_empty">>]
  /\ UNCHANGED <<graphVars, evalRun, datasetRun>>

SongsNext == SongsGenreQuery \/ SongsSongsQuery

SongsSpec == SongsInit /\ [][SongsNext]_vars

\* ------------------------------------------------ trajectory evaluators
\* the steps of a trajectory: names of tools and delegates
TrajectorySteps == {"invoice_information_subagent", "music_catalog_subagent"}
Trajectories == UNION {[1..n -> TrajectorySteps] : n \in 0..MaxTrajectoryLen}

\* JSON.stringify of an array of strings
RECURSIVE stringifyItems(_)
stringifyItems(list) ==
  IF list = <<>> THEN <<>>
  ELSE <<"\"", Head(list), "\"">>
         \o (IF Tail(list) = <<>> THEN <<>> ELSE <<",">> \o stringifyItems(Tail(list)))
stringify(list) == <<"[">> \o stringifyItems(list) \o <<"]">>

\* evaluateExactMatch: the score
evaluateExactMatch(output, expected) ==
  IF stringify(output) = stringify(expected) THEN 1 ELSE 0

EvalInit ==
  /\ graphIdle
  /\ evalRun \in {[NoEvalRun EXCEPT !.expected = e, !.output = o, !.pc = "loop"] :
                    e \in Trajectories, o \in Trajectories}
  /\ songsCall = NoSongsCall /\ datasetRun = NoDatasetRun

\* a mutant of extraStepsIteration: both trajectories advance on every step
extraStepsIteration_zip(run) ==
  IF run.expected[run.i + 1] = run.output[run.j + 1]
  THEN [run EXCEPT !.i = @ + 1, !.j = @ + 1]
  ELSE [run EXCEPT !.i = @ + 1, !.unmatchedSteps = @ + 1, !.j = @ + 1]

\* the body of the while loop of evaluateExtraSteps
extraStepsIteration(run) ==
  IF run.expected[run.i + 1] = run.output[run.j + 1]
  THEN [run EXCEPT !.i = @ + 1, !.j = @ + 1]
  ELSE [run EXCEPT !.unmatchedSteps = @ + 1, !.j = @ + 1]

\* while (i < expectedTrajectory.length && j < outputTrajectory.length)
EvalLoop ==
  /\ evalRun.pc = "loop"
  /\ evalRun.i < Len(evalRun.expected) /\ evalRun.j < Len(evalRun.output)
  /\ evalRun' = extraStepsIteration(evalRun)
  /\ UNCHANGED <<graphVars, songsCall, datasetRun>>

\* the loop has ended: the steps left in the output are unmatched; both
\* evaluators return their scores
EvalReturn ==
  /\ evalRun.pc = "loop"
  /\ ~(evalRun.i < Len(evalRun.expected) /\ evalRun.j < Len(evalRun.output))
  /\ evalRun' = [evalRun EXCEPT
                   !.pc = "done",
                   !.unmatchedSteps = @ + (Len(evalRun.output) - evalRun.j),
                   !.score = evalRun.unmatchedSteps + (Len(evalRun.output) - evalRun.j),
                   !.exact = evaluateExactMatch(evalRun.output, evalRun.expected)]
  /\ UNCHANGED <<graphVars, songsCall, datasetRun>>

EvalNext == EvalLoop \/ EvalReturn

EvalSpec == EvalInit /\ [][EvalNext]_vars

\* ------------------------------------------------------ getOrCreateDataset
\* The datasets of one name in the service: each is the list of the examples
\* it holds (an example is its index in the `examples` argument). The
\* service refuses a second dataset of a name, and any request can fail.
DatasetInit ==
  /\ graphIdle
  /\ datasetRun \in {[NoDatasetRun EXCEPT !.examples = n] : n \in 1..MaxExamples}
  /\ songsCall = NoSongsCall /\ evalRun = NoEvalRun

\* getOrCreateDataset(client, datasetName, examples) is called
DatasetCall ==
  /\ datasetRun.pc \in {"idle", "returned", "threw"}
  /\ datasetRun.calls < MaxDatasetCalls
  /\ datasetRun' = [datasetRun EXCEPT !.pc = "read", !.calls = @ + 1]
  /\ UNCHANGED <<graphVars, songsCall, evalRun>>

\* try { await client.readDataset({ datasetName }) } catch (error) { ... }:
\* the read succeeds only for a dataset that exists; every rejection, for a
\* missing dataset or a failed request, enters the catch block
DatasetRead ==
  /\ datasetRun.pc = "read"
  /\ \E ok \in BOOLEAN :
       /\ ok => datasetRun.datasets # <<>>
       /\ datasetRun' = [datasetRun EXCEPT !.pc = IF ok THEN "returned" ELSE "create"]
  /\ UNCHANGED <<graphVars, songsCall, evalRun>>

\* const dataset = await client.createDataset(datasetName), in the catch
\* block: a rejection leaves the function as an exception
DatasetCreate ==
  /\ datasetRun.pc = "create"
  /\ \E ok \in BOOLEAN :
       /\ ok => datasetRun.datasets = <<>>
       /\ datasetRun' = IF ok
                        THEN [datasetRun EXCEPT !.datasets = Append(@, <<>>),
                                                !.next = 1, !.pc = "examples"]
                        ELSE [datasetRun EXCEPT !.pc = "threw"]
  /\ UNCHANGED <<graphVars, songsCall, evalRun>>

\* for (const example of examples) await client.createExample(...): one
\* iteration, or the end of the loop
DatasetExample ==
  /\ datasetRun.pc = "examples"
  /\ IF datasetRun.next > datasetRun.examples
     THEN datasetRun' = [datasetRun EXCEPT !.pc = "returned"]
     ELSE \E ok \in BOOLEAN :
            datasetRun' = IF ok
                          THEN [datasetRun EXCEPT
                                  !.datasets[Len(datasetRun.datasets)] =
                                     Append(@, datasetRun.next),
                                  !.next = @ + 1]
                          ELSE [datasetRun EXCEPT !.pc = "threw"]
  /\ UNCHANGED <<graphVars, songsCall, evalRun>>

DatasetNext == DatasetCall \/ DatasetRead \/ DatasetCreate \/ DatasetExample

DatasetSpec == DatasetInit /\ [][DatasetNext]_vars

\* ------------------------------------------------------------------ claims
IsPrefix(a, b) == Len(a) <= Len(b) /\ SubSeq(b, 1, Len(a)) = a
distinctIds(list) == \A i, j \in 1..Len(list) : i # j => list[i].id # list[j].id
Downstream == {"load_memory", "supervisor", "create_memory"}

\* C1: in the verification and memory graphs, load_memory, supervisor and
\* create_memory are only entered with customerId set, and a run whose
\* customerId is absent after verify_info is at human_input.
C1_Gate ==
  entry \in {"04", "05"} =>
    /\ pc \in Downstream => customerId # Nil
    /\ (lastNode = "verify_info" /\ customerId = Nil) => pc = "human_input"

\* a run that was sent to human_input, resumed, verified and let through
C1_Witness ==
  entry = "05" /\ resumes = 1 /\ lastNode = "load_memory" /\ pc = "supervisor"
    /\ customerId # Nil

\* C2: in the music sub-agent graph, after music_assistant the next node is
\* the tool node exactly when the last message carries tool calls, and the
\* graph ends exactly when it carries none.
C2_ToolsIffToolCalls ==
  (subKind = "music" /\ subLast = "assistant") =>
    /\ subPc = "tools" <=> hasToolCalls(Last(subMessages))
    /\ subPc = "END" <=> ~hasToolCalls(Last(subMessages))

\* C3: every store query an invoice tool issues in a verified run is scoped
\* to the customerId of the supervisor's shared state, whatever the decision
\* step put into its arguments.
C3_QueriesScopedToState ==
  entry \in {"04", "05"} =>
    \A inv \in lastTools : inv.queried => inv.scope = inv.stateCid

\* C4: an invoice tool invoked with no customerId in its context returns
\* the "customer not verified" error and issues no query.
C4_AbsentContextNoQuery ==
  \A inv \in lastTools :
    inv.ctx = Nil => (inv.result = "error_not_verified" /\ ~inv.queried)

\* C5: create_memory keeps every field of the persisted profile unless the
\* new value of the field is non-empty; a non-empty musicPreferences is
\* never replaced by an empty list.
C5_MergeKeepsPrevious ==
  [][(pc = "create_memory" /\ customerId # Nil) =>
       LET old == store[toString(customerId)]
           new == store'[toString(customerId)]
       IN /\ new.musicPreferences = old.musicPreferences \/ new.musicPreferences # <<>>
          /\ new.customerId = old.customerId \/ new.customerId # <<>>]_vars

\* C6: verify_info entered with customerId set changes nothing of the shared
\* state and calls no collaborator.
C6_VerifiedPassThrough ==
  [][(pc = "verify_info" /\ customerId # Nil) =>
       (UNCHANGED topState /\ lastCalls' = {})]_vars

\* verify_info ran on a later turn of a verified thread
C6_Witness ==
  lastNode = "verify_info" /\ customerId # Nil /\ lastCalls = {} /\ invokes = 2

\* the Deciding -> Executing transitions of the running sub-agent loop
subTransitions == subRounds + (IF subPc = "tools" THEN 1 ELSE 0)

\* C7: the Deciding -> Executing transitions of a sub-agent loop never exceed
\* the remainingSteps it was invoked with, and remainingSteps goes down by
\* one per round (stated for the loops that enter the tool node on tool
\* calls).
C7_RoundsWithinBudget ==
  (subKind # "none" /\ (legacy \/ entry # "01")) =>
    /\ subTransitions <= subBudget
    /\ subRemaining = subBudget - subRounds

\* C8: a sub-agent loop that has used up its step budget is forced into
\* Done: it does not enter the tool node again (stated for the loops that
\* enter the tool node on tool calls).
C8_ExhaustionForcesDone ==
  (subKind # "none" /\ (legacy \/ entry # "01") /\ subRounds >= subBudget) =>
    subPc # "tools"

\* C9: across every step of a run the message list before is a prefix of
\* the message list after, and no message appears twice.
C9_MessagesAppendOnly ==
  [][thread' = thread => (IsPrefix(messages, messages') /\ distinctIds(messages'))]_vars

\* the supervisor node returned the nested run's whole list, with a
\* delegate's tool result in it
C9_Witness ==
  lastNode = "supervisor" /\ Len(messages) > 3
    /\ \E i \in 1..Len(messages) : messages[i].type = "tool"

\* C10: within a run customerId, once set, is never cleared or changed, and
\* only verify_info writes it.
C10_CustomerIdStable ==
  [][thread' = thread =>
       /\ customerId # Nil => customerId' = customerId
       /\ customerId' # customerId => pc = "verify_info"]_vars

\* a verified customer id that every node of two turns has left alone
C10_Witness ==
  entry = "05" /\ invokes = 2 /\ thread = 1 /\ lastNode = "create_memory"
    /\ customerId # Nil

\* the CustomerId values of the rows of the Customer table
StoredCustomerIds == {CustomerTable[i].CustomerId : i \in 1..Len(CustomerTable)}

\* C11: in the verification and memory graphs customerId is only ever set to
\* the CustomerId of a stored customer; an identifier that matches no stored
\* customer leaves it unset.
C11_OnlyStoredCustomers ==
  (entry \in {"04", "05"} /\ customerId # Nil) => customerId \in StoredCustomerIds

\* the order of a completed run of the memory graph: verify_info, then
\* (human_input, verify_info) any number of times, then load_memory,
\* supervisor, create_memory
CompletedOrder(r) ==
  LET n == Len(r)
  IN /\ n >= 4
     /\ r[n] = "create_memory" /\ r[n - 1] = "supervisor" /\ r[n - 2] = "load_memory"
     /\ (n - 3) % 2 = 1
     /\ \A i \in 1..(n - 3) : r[i] = IF i % 2 = 1 THEN "verify_info" ELSE "human_input"

\* C12: a completed run of the memory graph ran verify_info (with
\* human_input rounds), load_memory, supervisor, create_memory in that order,
\* the last three once each; nested supervisor and sub-agent runs exist only
\* while the supervisor node runs, the supervisor's decision step waits for
\* the delegate's loop, and create_memory starts after all of them finished.
C12_NodeOrder ==
  entry = "05" =>
    /\ pc = "END" => CompletedOrder(ran)
    /\ pc = "create_memory" => (lastNode = "supervisor" /\ supPc = "idle" /\ subPc = "idle")
    /\ (supPc # "idle" \/ subPc # "idle") => pc = "supervisor"
    /\ supPc \in {"model", "end"} => subPc = "idle"

\* a completed run that was suspended once and delegated to a sub-agent
C12_Witness ==
  entry = "05" /\ pc = "END" /\ Len(ran) = 6
    /\ \E i \in 1..Len(messages) : messages[i].type = "tool"

\* a step the graph takes by itself, with no input from the caller, other
\* than the return of the supervisor node
GraphStep ==
  \/ VerifyInfo \/ LoadMemory \/ CreateMemory
  \/ SupervisorEnter \/ SupervisorModel \/ DelegateStart \/ DelegateReturn
  \/ SubAssistant \/ SubTools

\* the graph can take a step by itself; the supervisor node can return as
\* soon as its nested run has ended
CanStep == (ENABLED GraphStep) \/ (pc = "supervisor" /\ supPc = "end")

\* C13: a run that has not ended waits for the caller only at human_input
\* (everywhere else the graph can take a step by itself); the resume at
\* human_input appends exactly one user message whose content is the resume
\* text, and verify_info is the next node.
C13_SuspendOnlyAtHumanInput ==
  [][/\ (entry \in {"04", "05"} /\ pc' \notin {"human_input", "END"})
          => CanStep'
     /\ pc = "human_input" =>
          /\ pc' = "verify_info"
          /\ Len(messages') = Len(messages) + 1
          /\ IsPrefix(messages, messages')
          /\ Last(messages').type = "human"
          /\ Last(messages').content = Content("user", resumeText')
          /\ resumeText' \in UserTexts]_vars

\* a suspended run was resumed and verify_info is next
C13_Witness ==
  lastNode = "human_input" /\ pc = "verify_info" /\ resumeText \in UserTexts
    /\ Last(messages).content = Content("user", resumeText)

\* the id the lookup resolves an extracted identifier to (Null when nothing
\* was extracted or nothing matches)
Resolved(identifier) ==
  IF identifier # <<>> THEN getCustomerIdFromIdentifier(identifier).id ELSE Null

\* C14: in the verification and memory graphs a verify_info step that
\* resolves no customer leaves customerId absent, appends one
\* request-for-identity message and leaves the run at human_input; the resume
\* leads back to verify_info; a verify_info step after the resume that
\* resolves a customer sets customerId and continues downstream, and a run
\* with customerId set is never at human_input again.
C14_FailThenResume ==
  [][(entry \in {"04", "05"}) =>
       /\ (pc = "verify_info" /\ customerId = Nil /\ Resolved(extracted') = Null) =>
            /\ customerId' = Nil /\ pc' = "human_input"
            /\ Len(messages') = Len(messages) + 1 /\ IsPrefix(messages, messages')
            /\ Last(messages').type = "ai"
            /\ Last(messages').content.kind = "ask_identity"
       /\ pc = "human_input" => (pc' = "verify_info" /\ customerId' = Nil)
       /\ (pc = "verify_info" /\ resumes > 0 /\ customerId = Nil
             /\ Resolved(extracted') # Null) =>
            (customerId' = Resolved(extracted') /\ pc' = afterVerified)
       /\ (customerId' # Nil) => (pc' # "human_input")]_vars

\* a run that was suspended, resumed with a resolvable identifier, and ended
C14_Witness ==
  entry = "04" /\ ~legacy /\ pc = "END" /\ resumes = 1 /\ customerId # Nil
    /\ ran = <<"verify_info", "human_input", "verify_info", "supervisor">>

\* C15: a verify_info step whose extracted identifier resolves sets
\* customerId to the resolved id, appends exactly one assistant message
\* naming that id, does not call the decision step, and the next node is the
\* downstream node, not human_input.
C15_VerifySuccess ==
  [][(entry \in {"04", "05"} /\ pc = "verify_info" /\ customerId = Nil
        /\ Resolved(extracted') # Null) =>
       /\ customerId' = Resolved(extracted')
       /\ Len(messages') = Len(messages) + 1 /\ IsPrefix(messages, messages')
       /\ Last(messages').type = "ai"
       /\ Last(messages').content = Content("verified", toString(customerId'))
       /\ "decide" \notin lastCalls'
       /\ pc' = afterVerified /\ (pc' # "human_input")]_vars

\* verification resolved a stored phone number on the first message
C15_Witness ==
  lastNode = "verify_info" /\ resumes = 0 /\ customerId = 2
    /\ extracted = <<"+", "2", "5">> /\ pc = afterVerified

\* musicAssistant: the system prompt the music sub-agent's decision step is
\* called with
musicAssistantPrompt == generateMusicAssistantPrompt(subLoadedMemory)

\* C16: while the music sub-agent runs as a delegate of the memory graph, a
\* non-empty loadedMemory of the parent state is the memory in the
\* sub-agent's system prompt.
C16_MemoryReachesPrompt ==
  (entry = "05" /\ subKind = "music" /\ loadedMemory # <<>>) =>
    musicAssistantPrompt.memory = loadedMemory

\* C17: a delegate call starts its sub-agent loop on a list that holds only
\* the delegated query; while the loop runs the parent lists do not change;
\* the call's return appends to the supervisor's list exactly one tool
\* result, for the request, whose content is the content of the sub-agent's
\* last message.
C17_DelegateIsolation ==
  [][(entry # "01") =>
       /\ (subPc = "idle" /\ subPc' # "idle") =>
            /\ Len(subMessages') = 1
            /\ subMessages'[1].type = "human"
            /\ subMessages'[1].content.kind \in {"query", "query_for_customer"}
       /\ subPc \in {"assistant", "tools"} =>
            (supMessages' = supMessages /\ messages' = messages)
       /\ (subPc = "END" /\ subPc' = "idle") =>
            /\ Len(supMessages') = Len(supMessages) + 1
            /\ IsPrefix(supMessages, supMessages')
            /\ Last(supMessages').type = "tool"
            /\ Last(supMessages').content = Last(subMessages).content
            /\ Last(supMessages').tool_call_id = Head(supPending).id
            /\ messages' = messages]_vars

\* the second delegate call of one supervisor response starts on its own
\* one-message list after the first one has returned its tool result
C17_Witness ==
  entry = "05" /\ subPc = "assistant" /\ subLast = "START" /\ Len(subMessages) = 1
    /\ Len(supPending) = 1 /\ Last(supMessages).type = "tool"

\* the tool results of list msgs that carry the correlation id of call
resultsFor(msgs, call) ==
  {i \in 1..Len(msgs) : msgs[i].type = "tool" /\ msgs[i].tool_call_id = call.id}

\* every tool-call request of msgs has exactly one result in msgs
AllAnswered(msgs) ==
  \A i \in 1..Len(msgs) : \A k \in 1..Len(msgs[i].tool_calls) :
    Cardinality(resultsFor(msgs, msgs[i].tool_calls[k])) = 1

\* C18: whenever a sub-agent loop is about to run its decision step, or has
\* ended, every tool-call request of its message list has exactly one tool
\* result with the matching correlation id.
C18_RequestsAnswered ==
  (subKind # "none" /\ subPc \in {"assistant", "END"}) => AllAnswered(subMessages)

\* the string p occurs in the text
contains(text, p) == \E i \in 1..Len(text) : text[i] = p

\* C19 as stated: in the memory graph create_memory leaves a profile under the key of
\* the run's customer, no other step changes the store (a new turn or a new
\* thread included), and load_memory for a customer whose stored profile has
\* a non-empty musicPreferences sets a non-empty loadedMemory that contains
\* every stored preference string.
C19_RoundTrip ==
  [][(entry = "05") =>
       /\ (pc = "create_memory" /\ customerId # Nil) =>
            store'[toString(customerId)].present
       /\ pc # "create_memory" => store' = store
       /\ (pc = "load_memory" /\ customerId # Nil
             /\ store[toString(customerId)].present
             /\ store[toString(customerId)].musicPreferences # <<>>) =>
            LET prefs == store[toString(customerId)].musicPreferences
            IN /\ loadedMemory' # <<>>
               /\ \A i \in 1..Len(prefs) : contains(loadedMemory', prefs[i])]_vars

\* C19, amended: as C19, but the loadedMemory contains every stored
\* preference string but the last as stored, and the last one without the
\* whitespace at its end.
C19_RoundTripTrimmed ==
  [][(entry = "05") =>
       /\ (pc = "create_memory" /\ customerId # Nil) =>
            store'[toString(customerId)].present
       /\ pc # "create_memory" => store' = store
       /\ (pc = "load_memory" /\ customerId # Nil
             /\ store[toString(customerId)].present
             /\ store[toString(customerId)].musicPreferences # <<>>) =>
            LET prefs == store[toString(customerId)].musicPreferences
            IN /\ loadedMemory' # <<>>
               /\ \A i \in 1..(Len(prefs) - 1) : contains(loadedMemory', prefs[i])
               /\ contains(loadedMemory', trimEnd(prefs[Len(prefs)]))]_vars

\* a second thread of a customer loaded the two preferences the first saved
C19_Witness ==
  entry = "05" /\ thread = 2 /\ lastNode = "load_memory"
    /\ store[toString(customerId)].musicPreferences = <<"jazz", "rock">>
    /\ contains(loadedMemory, "jazz") /\ contains(loadedMemory, "rock")

\* C20: create_memory with customerId K set calls the extraction and puts
\* once, under the key of K, leaving every other key alone, whether or not
\* the profile changes; with customerId absent it leaves the store alone and
\* calls no collaborator; in both cases it updates nothing of the state.
C20_SaveFrame ==
  [][(pc = "create_memory") =>
       /\ UNCHANGED topState
       /\ IF customerId # Nil
          THEN /\ lastCalls' = {"extract", "store_put"}
               /\ store'[toString(customerId)].present
               /\ \A k \in StoreKeys \ {toString(customerId)} : store'[k] = store[k]
          ELSE store' = store /\ lastCalls' = {}]_vars

\* create_memory ran on a state with no customerId
C20_Witness ==
  lastNode = "create_memory" /\ customerId = Nil /\ pc = "END" /\ lastCalls = {}

\* create_memory put a profile equal to the one already stored
C20_WitnessUnchanged ==
  lastNode = "create_memory" /\ customerId = 1 /\ "store_put" \in lastCalls
    /\ store = [EmptyStore EXCEPT ![<<"1">>] =
                  StoredValue([customerId |-> <<"1">>, musicPreferences |-> <<"jazz">>])]

\* the store key of concurrent run r
runKey(r) == toString(runs[r].customerId)

\* C21: of two concurrent runs, a step of one changes nothing of the other;
\* a load reads only the record under the run's own customer id, a save
\* writes only that record; and every stored record is a profile that a run
\* of that customer saved, so with distinct customers each record is exactly
\* what its own run wrote, after any interleaving.
C21_DistinctCustomersIndependent ==
  [][/\ \A r \in Runs :
          /\ (runs[r].pc = "load_memory" /\ runs'[r].pc # "load_memory") =>
               runs'[r].loadedMemory =
                 (IF store[runKey(r)].present THEN formatUserMemory(store[runKey(r)])
                  ELSE <<>>)
          /\ (runs[r].pc = "create_memory_put" /\ runs'[r].pc = "END") =>
               \A k \in StoreKeys \ {runKey(r)} : store'[k] = store[k]
          /\ runs'[r].pc = runs[r].pc => runs'[r] = runs[r]
     /\ \A k \in StoreKeys :
          store'[k].present =>
            \E r \in Runs : /\ runKey(r) = k /\ runs'[r].pc = "END"
                            /\ store'[k] = StoredValue(runs'[r].updatedMemory)
     /\ runs'[1].customerId # runs'[2].customerId =>
          \A r \in Runs : runs'[r].pc = "END" =>
            store'[runKey(r)] = StoredValue(runs'[r].updatedMemory)]_vars

\* two runs of distinct customers whose loads and saves interleaved, each
\* record holding what its own run saved
C21_Witness ==
  /\ runs[1].customerId = 1 /\ runs[2].customerId = 2
  /\ runs[1].pc = "END" /\ runs[2].pc = "END" /\ puts = <<2, 1>>
  /\ store[<<"1">>].musicPreferences = <<"jazz">>
  /\ store[<<"2">>].musicPreferences = <<"rock">>

\* C22: when two runs of the same customer interleave, the stored profile
\* is, from the first save on, exactly the profile of the save that executed
\* last; nothing of the earlier save is kept.
C22_LastWriteWins ==
  (runs[1].customerId = runs[2].customerId /\ puts # <<>>) =>
    store[runKey(1)] = StoredValue(runs[Last(puts)].updatedMemory)

\* both runs loaded before either saved; the first save wrote jazz, the
\* last one rock, and rock alone is stored
C22_Witness ==
  /\ runs[1].customerId = 1 /\ runs[2].customerId = 1
  /\ runs[1].pc = "END" /\ runs[2].pc = "END" /\ puts = <<1, 2>>
  /\ runs[1].loadedMemory = <<>> /\ runs[2].loadedMemory = <<>>
  /\ runs[1].updatedMemory.musicPreferences = <<"jazz">>
  /\ store[<<"1">>].musicPreferences = <<"rock">>

\* C23 as stated: when the caller's input to a top-level graph carries a
\* customer id, verify_info is a pass-through and the run goes on to the
\* downstream node without suspending.
C23_SuppliedIdTreatedAsVerified ==
  [][(entry \in {"04", "05"} /\ inputCustomerId # Nil /\ pc = "verify_info") =>
       (UNCHANGED topState /\ lastCalls' = {} /\ pc' = afterVerified)]_vars

\* C23, amended: a customer id in the caller's input to a top-level graph
\* does not reach the state: the first verify_info of a thread runs with
\* customerId absent, calls the extraction, and suspends when nothing
\* resolves; customerId is only ever set to what the lookup resolved; and
\* verify_info with customerId already in the thread's state is a
\* pass-through to the downstream node.
C23_InputIdNotInState ==
  [][(entry \in {"04", "05"}) =>
       /\ (pc = "verify_info" /\ lastNode = "START" /\ invokes = 1) => customerId = Nil
       /\ thread' # thread => customerId' = Nil
       /\ (pc = "verify_info" /\ customerId = Nil) =>
            /\ "extract" \in lastCalls'
            /\ Resolved(extracted') = Null => (pc' = "human_input" /\ customerId' = Nil)
            /\ Resolved(extracted') # Null => customerId' = Resolved(extracted')
       /\ (pc = "verify_info" /\ customerId # Nil) =>
            (UNCHANGED topState /\ lastCalls' = {} /\ pc' = afterVerified)]_vars

\* the caller supplied customer id 1, and the run is suspended all the same
C23_Witness ==
  entry \in {"04", "05"} /\ inputCustomerId = 1 /\ invokes = 1 /\ customerId = Nil
    /\ lastNode = "verify_info" /\ pc = "human_input"

\* the shapes of a serialized structured payload
JsonPayloads == {"json_rows", "json_empty"}

\* C24: every tool result of a sub-agent loop, other than the error of the
\* customerId guard, is a serialized structured payload; a query that matched
\* nothing gives the serialized empty set.
C24_ResultsAreSerialized ==
  \A i \in 1..Len(subMessages) :
    (subMessages[i].type = "tool" /\ subMessages[i].content.kind # "error_not_verified")
      => subMessages[i].content.kind \in JsonPayloads

\* C25: the two variants of the music sub-agent graph visit the same nodes:
\* after every decision-step response the running variant is at the node the
\* other variant goes to on that response.
C25_VariantsAgree ==
  (subKind = "music" /\ subLast = "assistant") =>
    subPc = nextAfterAssistant("music", ~legacy, Last(subMessages))

\* C26: the music sub-agent loop cannot run forever: a decision-step
\* response without tool calls takes the loop to Done, and every round
\* through the tool node uses up one of the finitely many remaining steps,
\* so a decision step that keeps requesting tools is stopped as well.
C26_LoopReachesDone ==
  [][(subKind = "music") =>
       /\ (subPc = "assistant" /\ subPc' # "assistant"
             /\ ~hasToolCalls(Last(subMessages'))) => subPc' = "END"
       /\ (subPc = "tools" /\ subPc' = "assistant") =>
            (subRemaining' < subRemaining /\ subRemaining' >= 0)]_vars

\* C27: what a delegate call hands to the supervisor is the content of the
\* last message of its sub-agent's list, and that message is an assistant
\* message without tool-call requests.
C27_DelegateReturnsFinalAnswer ==
  [][(entry # "01" /\ subPc = "END" /\ subPc' = "idle") =>
       /\ Last(supMessages').content = Last(subMessages).content
       /\ Last(subMessages).type = "ai"
       /\ ~hasToolCalls(Last(subMessages))]_vars

\* C28: a verify_info step that resolves no customer appends exactly one
\* decision-step response and leaves customerId absent; verify_info runs an
\* extraction only as the first node of an invocation or right after a
\* resume at human_input whose user message is then the last of the list,
\* so it never runs twice in a row.
C28_NoRetryWithoutResume ==
  [][(entry \in {"04", "05"} /\ pc = "verify_info" /\ customerId = Nil) =>
       /\ lastNode \in {"START", "human_input"}
       /\ lastNode = "human_input" =>
            (Last(messages).type = "human"
               /\ Last(messages).content = Content("user", resumeText))
       /\ Resolved(extracted') = Null =>
            /\ customerId' = Nil
            /\ Len(messages') = Len(messages) + 1 /\ IsPrefix(messages, messages')
            /\ Last(messages').type = "ai"
            /\ lastCalls' \ {"db"} = {"extract", "decide"}
            /\ pc' = "human_input"
       /\ \A i \in 1..(Len(ran') - 1) :
            ~(ran'[i] = "verify_info" /\ ran'[i + 1] = "verify_info")]_vars

\* an extraction failed, the run was resumed, and the next extraction failed
\* too: two requests for identity with the resume's message between them
C28_Witness ==
  entry \in {"04", "05"} /\ lastNode = "verify_info" /\ pc = "human_input"
    /\ resumes = 1 /\ customerId = Nil /\ Resolved(extracted) = Null
    /\ Len(messages) = 4 /\ messages[3].type = "human"
    /\ ran = <<"verify_info", "human_input", "verify_info">>

\* the phone rule: the first row whose Phone is the identifier, else the
\* first row with a '+' phone that equals the identifier once whitespace and
\* parentheses are stripped from both, else nothing
phoneRule(identifier) ==
  LET exact == {k \in 1..Len(CustomerTable) : CustomerTable[k].Phone = identifier}
      loose == {k \in 1..Len(CustomerTable) :
                  /\ startsWithPlus(CustomerTable[k].Phone)
                  /\ normalize(CustomerTable[k].Phone) = normalize(identifier)}
      first(S) == CHOOSE k \in S : \A j \in S : k <= j
  IN IF exact # {} THEN CustomerTable[first(exact)].CustomerId
     ELSE IF loose # {} THEN CustomerTable[first(loose)].CustomerId
     ELSE Null

\* the email rule: the first row whose Email is the identifier, else nothing
emailRule(identifier) ==
  LET exact == {k \in 1..Len(CustomerTable) : CustomerTable[k].Email = identifier}
  IN IF exact # {} THEN CustomerTable[CHOOSE k \in exact : \A j \in exact : k <= j].CustomerId
     ELSE Null

\* C29: getCustomerIdFromIdentifier resolves by exactly one rule, chosen by
\* the identifier's shape: all digits, the number; else a leading '+', the
\* phone rule and no email lookup; else an '@', the email rule; else nothing.
C29_OneRuleByShape ==
  lookup.done =>
    LET i == lookup.identifier
    IN IF AllDigits(i) THEN lookup.id = parseInt(i) /\ lookup.queries = <<>>
       ELSE IF startsWithPlus(i)
            THEN lookup.id = phoneRule(i)
                   /\ \A q \in 1..Len(lookup.queries) : lookup.queries[q] # "email"
       ELSE IF includesAt(i)
            THEN lookup.id = emailRule(i) /\ lookup.queries = <<"email">>
       ELSE lookup.id = Null /\ lookup.queries = <<>>

\* the pieces of list with ", " between them
joinedBy(list) ==
  [i \in 1..(2 * Len(list) - 1) |-> IF i % 2 = 1 THEN list[(i + 1) \div 2] ELSE ", "]

\* what C30 says of a load_memory step, given the summary it names for a
\* non-empty record: no record or an empty list gives the empty loadedMemory
\* and the message 'user_preferences: none'; a non-empty list gives the
\* summary and the message 'user_preferences: ' with the summary; one message
\* is appended in both cases
loadAsClaimed(summary) ==
  LET rec == store[toString(customerId)]
  IN /\ Len(messages') = Len(messages) + 1 /\ IsPrefix(messages, messages')
     /\ Last(messages').type = "human"
     /\ IF ~rec.present \/ rec.musicPreferences = <<>>
        THEN /\ loadedMemory' = <<>>
             /\ Last(messages').content = Content("user_preferences", <<"none">>)
        ELSE /\ loadedMemory' = summary
             /\ Last(messages').content = Content("user_preferences", summary)

\* C30 as stated: the summary of a non-empty record is 'Music Preferences: '
\* followed by the preferences joined by ', '.
C30_LoadFormat ==
  [][(entry = "05" /\ pc = "load_memory" /\ customerId # Nil) =>
       loadAsClaimed(<<"Music Preferences: ">>
                       \o joinedBy(store[toString(customerId)].musicPreferences))]_vars

\* C30, amended: the summary is that text without the whitespace at its end.
C30_LoadFormatTrimmed ==
  [][(entry = "05" /\ pc = "load_memory" /\ customerId # Nil) =>
       LET text == <<"Music Preferences: ">>
                     \o joinedBy(store[toString(customerId)].musicPreferences)
       IN loadAsClaimed([text EXCEPT ![Len(text)] = trimEnd(@)])]_vars

\* a load of a record whose last preference ends with a space
C30_Witness ==
  entry = "05" /\ lastNode = "load_memory" /\ customerId # Nil
    /\ store[toString(customerId)].musicPreferences = <<"jazz", "pop ">>
    /\ loadedMemory = <<"Music Preferences: ", "jazz", ", ", "pop">>
    /\ Last(messages).content = Content("user_preferences", loadedMemory)

\* a load for a customer with no record
C30_WitnessNone ==
  entry = "05" /\ lastNode = "load_memory" /\ customerId # Nil
    /\ ~store[toString(customerId)].present /\ loadedMemory = <<>>
    /\ Last(messages).content = Content("user_preferences", <<"none">>)

C32_StoredIdMatchesKey ==
  \A k \in StoreKeys : store[k].present => store[k].customerId = k

\* C33: with the checkpointer and a fixed thread id, the customerId set in a
\* completed invocation persists to later invocations on the thread: the
\* later invoke adds only the new user message, verify_info passes without
\* extraction and without an update, the run never suspends, customerId
\* never changes, and the turn runs verify_info, load_memory, supervisor and
\* create_memory and saves under the same customer's key.
C33_CustomerPersistsAcrossTurns ==
  [][(entry = "05" /\ thread = 1 /\ thread' = 1 /\ invokes' >= 2) =>
       /\ customerId' = customerId /\ customerId # Nil
       /\ pc' # "human_input"
       /\ (pc = "END" =>
             /\ pc' = "verify_info"
             /\ Len(messages') = Len(messages) + 1 /\ IsPrefix(messages, messages')
             /\ Last(messages').type = "human"
             /\ loadedMemory' = loadedMemory /\ store' = store)
       /\ (pc = "verify_info" =>
             /\ lastCalls' = {} /\ extracted' = NotExtracted
             /\ messages' = messages /\ pc' = "load_memory")
       /\ (pc = "load_memory" => lastCalls' = {"store_get"})
       /\ (pc = "create_memory" =>
             /\ ran' = <<"verify_info", "load_memory", "supervisor", "create_memory">>
             /\ store'[toString(customerId)].present
             /\ \A k \in StoreKeys \ {toString(customerId)} : store'[k] = store[k])]_vars

\* a second turn on the thread has completed for the customer of the first
C33_Witness ==
  entry = "05" /\ thread = 1 /\ invokes = 2 /\ pc = "END" /\ resumes = 1
    /\ customerId = 1
    /\ ran = <<"verify_info", "load_memory", "supervisor", "create_memory">>

\* C34: the verification gate and the invoice tools agree on what 'verified'
\* means: whenever the customerId of the shared state is one shouldInterrupt
\* routes to "continue" (0 included), an invoice tool runs its scoped query
\* and does not return the 'customer not verified' error.
C34_GateAndToolsAgree ==
  (entry \in {"04", "05"} /\ ~legacy) =>
    \A inv \in lastTools :
      shouldInterrupt(inv.stateCid) = "continue" =>
        (inv.result # "error_not_verified" /\ inv.queried)

\* C36: when the structured-extraction call fails in create_memory, or a
\* collaborator fails in an earlier node, the run ends as a failed run that
\* takes no further step (no retry) and the store is what it was before the
\* run: the failing step leaves the store unchanged, the failed run has not
\* completed create_memory, and within a run the store changes only in the
\* create_memory step that ends it.
C36_FailureLeavesProfile ==
  [][/\ (pc' = "FAILED" =>
           /\ store' = store
           /\ \A i \in 1..Len(ran') : ran'[i] # "create_memory"
           /\ messages' = messages)
     /\ (pc = "FAILED" => UNCHANGED vars)
     /\ (store' # store => (pc = "create_memory" /\ pc' = "END"))]_vars

\* the extraction call failed in create_memory of a second turn, with a
\* profile saved by the first turn in the store
C36_Witness ==
  pc = "FAILED" /\ ran = <<"verify_info", "load_memory", "supervisor">>
    /\ invokes = 2 /\ customerId = 1
    /\ store[<<"1">>].present /\ store[<<"1">>].musicPreferences = <<"jazz">>

\* a collaborator failed in the first node of a run
C36_WitnessEarly ==
  pc = "FAILED" /\ ran = <<>> /\ invokes = 1 /\ store = EmptyStore

\* C37: get_songs_by_genre called with a genre that matches no Genre row
\* returns 'No songs found for the genre: <genre>' and issues only the genre
\* lookup query; with at least one matching genre it issues, after the genre
\* lookup, exactly one songs query, restricted to ids of matching genres.
C37_SongsByGenreQueries ==
  songsCall.pc = "done" =>
    LET matched == {GenreTable[r].GenreId :
                      r \in {r \in 1..Len(GenreTable) :
                               like(GenreTable[r].Name,
                                    <<"%">> \o songsCall.genre \o <<"%">>)}}
        q == songsCall.queries
    IN IF matched = {}
       THEN /\ songsCall.result = <<"No songs found for the genre: ">> \o songsCall.genre
            /\ Len(q) = 1 /\ q[1].kind = "genre" /\ q[1].genre = songsCall.genre
       ELSE /\ Len(q) = 2 /\ q[1].kind = "genre" /\ q[1].genre = songsCall.genre
            /\ q[2].kind = "songs" /\ q[2].genreIds # <<>>
            /\ \A i \in 1..Len(q[2].genreIds) : q[2].genreIds[i] \in matched
            /\ (Cardinality(matched) <= GenreLimit =>
                  {q[2].genreIds[i] : i \in 1..Len(q[2].genreIds)} = matched)
            /\ songsCall.result \in {<<"json_rows">>, <<"json_empty">>}

\* the call returned for a genre that matches no row
C37_Witness ==
  songsCall.pc = "done" /\ songsCall.genre = <<"o", "o">>
    /\ songsCall.result = <<"No songs found for the genre: ", "o", "o">>

\* the call returned after a songs query for two matching genres
C37_WitnessMatch ==
  songsCall.pc = "done" /\ songsCall.genre = <<"r", "_">>
    /\ Len(songsCall.queries) = 2 /\ songsCall.queries[2].genreIds = <<1, 3, 7>>

\* the output steps a left-to-right pass matches, advancing through the
\* expected trajectory on each equal step
RECURSIVE matchedInPass(_, _)
matchedInPass(expected, output) ==
  IF expected = <<>> \/ output = <<>> THEN 0
  ELSE IF Head(expected) = Head(output)
       THEN 1 + matchedInPass(Tail(expected), Tail(output))
       ELSE matchedInPass(expected, Tail(output))

\* C38: evaluateExtraSteps returns the number of output steps left unmatched
\* by that pass; the score lies between 0 and the output length, is 0
\* exactly when the output is a prefix of the expected trajectory, and is 0
\* whenever evaluateExactMatch scores 1 (which it does exactly for equal
\* trajectories).
C38_ExtraSteps ==
  evalRun.pc = "done" =>
    /\ evalRun.score = Len(evalRun.output) - matchedInPass(evalRun.expected, evalRun.output)
    /\ evalRun.score >= 0 /\ evalRun.score <= Len(evalRun.output)
    /\ evalRun.score = 0 <=> IsPrefix(evalRun.output, evalRun.expected)
    /\ evalRun.exact = 1 => evalRun.score = 0
    /\ evalRun.exact = 1 <=> evalRun.output = evalRun.expected

\* the evaluators returned for an output with one extra step before the
\* expected ones
C38_Witness ==
  evalRun.pc = "done" /\ evalRun.score = 1 /\ evalRun.exact = 0
    /\ evalRun.expected = <<"music_catalog_subagent", "invoice_information_subagent">>
    /\ evalRun.output = <<"invoice_information_subagent", "music_catalog_subagent",
                          "invoice_information_subagent">>

\* the evaluators returned for equal, non-empty trajectories
C38_WitnessExact ==
  evalRun.pc = "done" /\ evalRun.score = 0 /\ evalRun.exact = 1 /\ Len(evalRun.output) = 3

\* C39: after any sequence of calls of getOrCreateDataset with the same
\* name and examples, calls in which a request failed included, at most one
\* dataset of that name has been created and it holds each example exactly
\* once.
C39_OneCompleteDataset ==
  datasetRun.pc \in {"returned", "threw"} =>
    /\ Len(datasetRun.datasets) <= 1
    /\ \A d \in 1..Len(datasetRun.datasets) :
         \A e \in 1..datasetRun.examples :
           Cardinality({k \in 1..Len(datasetRun.datasets[d]) :
                          datasetRun.datasets[d][k] = e}) = 1

====
